---------------------------- MODULE Spec2Model ----------------------------
(***************************************************************************)
(* Model of src/app.py: the co-occurrence graph builder (build_graph), the *)
(* ranking pipeline of main (nx.pagerank, the sorted table df), the        *)
(* per-session cache st.session_state.paper_data and the display step      *)
(* (G.subgraph on the selected words).                                     *)
(*                                                                         *)
(* Two specifications share the variables:                                 *)
(*   SpecCore  the components applied to every bounded input               *)
(*             (build_graph -> nx.pagerank -> df -> G_vis);                *)
(*   Spec      one Streamlit session: every widget interaction reruns the  *)
(*             whole script main() against the session state.              *)
(***************************************************************************)
EXTENDS Integers, Sequences, FiniteSets, TLC

(***************************************************************************)
(* Bounds of the model.                                                    *)
(***************************************************************************)
\* longest token sequence handed to build_graph in SpecCore
MaxLen == 6
\* largest window size tried in SpecCore
MaxW == 5
\* SpecCore also tries the window sizes 0, -1, ..., -NegW
NegW == 1
\* largest number of files in the uploader at once in Spec
MaxBatch == 2

(***************************************************************************)
(* Terms: the cleaned tokens.  LexOrder lists them in ascending            *)
(* lexicographic order of the strings.                                     *)
(***************************************************************************)
LexOrder == <<"bridge", "flood", "river">>
Terms == {LexOrder[i] : i \in 1..Len(LexOrder)}
LexIndex(t) == CHOOSE i \in 1..Len(LexOrder) : LexOrder[i] = t
LexLess(a, b) == LexIndex(a) < LexIndex(b)

(***************************************************************************)
(* nx.Graph: the nodes in insertion order and the adjacency of each node   *)
(* (networkx keeps a dict of dicts, G._adj).                               *)
(***************************************************************************)
EmptyGraph == [nodes |-> <<>>, adj |-> <<>>]

NodeSet(G) == DOMAIN G.adj

add_node(G, n) ==
    IF n \in DOMAIN G.adj THEN G
    ELSE [nodes |-> Append(G.nodes, n),
          adj   |-> [x \in DOMAIN G.adj \cup {n} |->
                        IF x = n THEN {} ELSE G.adj[x]]]

add_edge(G, u, v) ==
    LET H == add_node(add_node(G, u), v)
    IN  [H EXCEPT !.adj = [x \in DOMAIN H.adj |->
                             IF x = u /\ x = v THEN H.adj[x] \cup {u}
                             ELSE IF x = u THEN H.adj[x] \cup {v}
                             ELSE IF x = v THEN H.adj[x] \cup {u}
                             ELSE H.adj[x]]]

\* the edges as unordered pairs (a self-loop is the singleton {a})
Edges(G) == UNION {{{a, b} : b \in G.adj[a]} : a \in DOMAIN G.adj}

(***************************************************************************)
(* build_graph (app.py 97-103).  Python indexes from 0, the model from 1:  *)
(* range(len(words) - window_size) is i = 1 .. Len(words) - window_size    *)
(* and range(1, window_size + 1) is j = 1 .. window_size.  No index is out  *)
(* of range for any window size: i + j <= Len(words) inside the loops.     *)
(***************************************************************************)
\* a variant that links a term to itself
link_selfloop(G, u, v) == add_edge(G, u, v)

\* lines 101-102: if words[i] != words[i + j]: G.add_edge(...)
link(G, u, v) == IF u # v THEN add_edge(G, u, v) ELSE G

RECURSIVE InnerLoop(_, _, _, _, _)
InnerLoop(words, wsize, i, j, G) ==
    IF j > wsize THEN G
    ELSE InnerLoop(words, wsize, i, j + 1,
                   link(G, words[i], words[i + j]))

\* line 99: the last value of i in range(len(words) - window_size)
OuterBound(words, wsize) == Len(words) - wsize

RECURSIVE OuterLoop(_, _, _, _)
OuterLoop(words, wsize, i, G) ==
    IF i > OuterBound(words, wsize) THEN G
    ELSE OuterLoop(words, wsize, i + 1,
                   InnerLoop(words, wsize, i, 1, G))

\* window_size is wsize here (window_size names the slider's value below)
build_graph(words, wsize) == OuterLoop(words, wsize, 1, EmptyGraph)

(***************************************************************************)
(* nx.pagerank(G) with its defaults (app.py 143): power iteration with     *)
(* alpha = 0.85, max_iter = 100, tol = 1e-6, uniform start and uniform     *)
(* personalization; the empty graph returns the empty dict; no convergence *)
(* within max_iter raises PowerIterationFailedConvergence.  Scores are     *)
(* floats in the code and multiples of 1/Scale here.                       *)
(***************************************************************************)
Scale == 10000000
AlphaPct == 85
max_iter == 100
\* tol = 1e-6, in units of 1/Scale
Tol == 10

Abs(k) == IF k < 0 THEN -k ELSE k

Degree(G, u) == Cardinality(G.adj[u])

\* the position of node u in nodelist = list(G)
Pos(G, u) == CHOOSE i \in 1..Len(G.nodes) : G.nodes[i] = u

\* (x @ A)[v]: what the neighbours in S send, each an equal share of its score
RECURSIVE Inflow(_, _, _)
Inflow(G, x, S) ==
    IF S = {} THEN 0
    ELSE LET u == CHOOSE u \in S : TRUE
         IN  x[Pos(G, u)] \div Degree(G, u) + Inflow(G, x, S \ {u})

\* sum(x[is_dangling]) over the nodes from position i on
RECURSIVE DanglingMass(_, _, _)
DanglingMass(G, x, i) ==
    IF i > Len(G.nodes) THEN 0
    ELSE (IF Degree(G, G.nodes[i]) = 0 THEN x[i] ELSE 0) + DanglingMass(G, x, i + 1)

\* x = alpha * (x @ A + sum(x[is_dangling]) * p) + (1 - alpha) * p, entry i
NewScore(G, x, i) ==
    LET N == Len(G.nodes)
    IN  (AlphaPct * (Inflow(G, x, G.adj[G.nodes[i]]) + DanglingMass(G, x, 1) \div N)) \div 100
        + ((100 - AlphaPct) * Scale) \div (100 * N)

RECURSIVE PowerStep(_, _, _)
PowerStep(G, x, i) ==
    IF i > Len(G.nodes) THEN <<>>
    ELSE <<NewScore(G, x, i)>> \o PowerStep(G, x, i + 1)

\* err = np.absolute(x - xlast).sum()
RECURSIVE L1(_, _, _)
L1(x, y, i) ==
    IF i > Len(x) THEN 0 ELSE Abs(x[i] - y[i]) + L1(x, y, i + 1)

\* the loop "for _ in range(max_iter)", left at the first iteration whose
\* err < N * tol: at most n iterations from x.  The n iterations are run as
\* the first n \div 2 and then, if those did not converge, the rest.
RECURSIVE PowerIterate(_, _, _)
Continue(G, first, n) ==
    IF first.converged THEN first ELSE PowerIterate(G, first.scores, n)

Iteration(G, x, y) ==
    [converged |-> L1(y, x, 1) < Len(G.nodes) * Tol, scores |-> y]

PowerIterate(G, x, n) ==
    IF n <= 0 THEN [converged |-> FALSE, scores |-> x]
    ELSE IF n = 1 THEN Iteration(G, x, PowerStep(G, x, 1))
    ELSE Continue(G, PowerIterate(G, x, n \div 2), n - n \div 2)

\* the iteration from x = np.repeat(1.0 / N, N); scores[i] belongs to G.nodes[i]
PowerMethod(G) ==
    LET N == Len(G.nodes)
    IN  IF N = 0 THEN [converged |-> TRUE, scores |-> <<>>]
        ELSE PowerIterate(G, [i \in 1..N |-> Scale \div N], max_iter)

\* dict(zip(nodelist, map(float, x)))
RECURSIVE ZipDict(_, _, _)
ZipDict(nodelist, x, i) ==
    IF i > Len(nodelist) THEN <<>>
    ELSE (nodelist[i] :> x[i]) @@ ZipDict(nodelist, x, i + 1)

PagerankResult(G, r) ==
    [raised |-> IF r.converged THEN "none" ELSE "PowerIterationFailedConvergence",
     pr     |-> ZipDict(G.nodes, r.scores, 1)]

\* nx.pagerank(G): the score of every node, or the exception it raises
pagerank(G) == PagerankResult(G, PowerMethod(G))

(***************************************************************************)
(* The ranked table df (app.py 145-147): the rows of pr.items(), sorted by *)
(* PageRank descending, re-indexed, with the column ID = 1..N in front.    *)
(* sort_values uses its default kind, quicksort, which is not stable: the  *)
(* order of rows with equal PageRank is whatever the sort leaves (numpy    *)
(* picks the algorithm by array size and CPU), so every order of the ties  *)
(* is a possible outcome.  The sort never reads the column Kata.           *)
(***************************************************************************)
Orders(S) == {o \in [1..Cardinality(S) -> S] : \A i, j \in DOMAIN o : i # j => o[i] # o[j]}

Descending(pr, o) == \A i, j \in DOMAIN o : i < j => pr[o[i]] >= pr[o[j]]

\* the row orders df.sort_values(by='PageRank', ascending=False) can leave
sort_values(pr) == {o \in Orders(DOMAIN pr) : Descending(pr, o)}

\* reset_index(drop=True) and df.insert(0, 'ID', range(1, len(df) + 1))
Table(pr, o) == [i \in 1..Len(o) |-> [ID |-> i, Kata |-> o[i], PageRank |-> pr[o[i]]]]

RankedTables(pr) == {Table(pr, o) : o \in sort_values(pr)}

(***************************************************************************)
(* The display step's filter (app.py 190-210).                             *)
(***************************************************************************)
\* df.head(n)['Kata'].tolist()
RECURSIVE head(_, _)
head(df, n) ==
    IF n <= 0 \/ df = <<>> THEN <<>>
    ELSE <<Head(df).Kata>> \o head(Tail(df), n - 1)

Range(q) == {q[i] : i \in 1..Len(q)}

\* nx.Graph.subgraph(nbunch): the nodes of G in nbunch, and between them
\* the adjacency of G
subgraph(G, nbunch) ==
    LET keep(n) == n \in nbunch
    IN  [nodes |-> SelectSeq(G.nodes, keep),
         adj   |-> [n \in NodeSet(G) \cap nbunch |-> G.adj[n] \cap nbunch]]

\* a variant that ignores the filter
visible_all(G, chosen) == G

\* line 210: G_vis = G.subgraph(selected_words) if selected_words else G
visible(G, chosen) == IF chosen # {} THEN subgraph(G, chosen) ELSE G

(***************************************************************************)
(* The uploaded files.  A file is its name (the cache key, line 136); its  *)
(* content is fixed per name.  PdfWords[f] is process_text(                *)
(* extract_text_from_pdf(f)), the cleaned tokens; fitz.open raises on a    *)
(* file of Corrupt (no handler in app.py catches it).                      *)
(***************************************************************************)
PdfWords ==
    [ survey |-> <<"flood", "river", "flood", "river", "bridge", "river">>,
      stub   |-> <<"flood", "river", "bridge", "flood", "river">>,
      echo   |-> <<"flood", "flood", "flood", "flood", "flood", "flood">>,
      broken |-> <<>> ]

Corrupt == {"broken"}
FileNames == DOMAIN PdfWords

\* st.slider("Jarak Hubungan Kata", 1, 5, 2)
SliderMin == 1
SliderMax == 5
SliderDefault == 2
\* line 141: if len(words) > 5
MinWords == 5
\* line 186: value=min(40, total_words)
DefaultShown == 40

NoPaper == "(none)"
NoGraph == [nodes |-> <<>>, adj |-> <<>>]

(***************************************************************************)
(* State.  The session (Spec): st.session_state.paper_data and             *)
(* .active_file_key, the values of the sidebar widgets, what the last run  *)
(* of the script displayed and the exception that ended it.  The           *)
(* components (SpecCore): the input, the graph, the score map, the table   *)
(* and the filter, with pc the stage reached.                              *)
(***************************************************************************)
VARIABLES paper_data, active_file_key, uploaded_files, window_size,
          selected, max_words, selected_words, G_vis, raised,
          tokens, win, graph, rank, table, included, pc

session == <<paper_data, active_file_key, uploaded_files, window_size,
             selected, max_words, selected_words>>
core    == <<tokens, win, graph, rank, table, included>>
vars    == <<session, core, G_vis, raised, pc>>

Min(a, b) == IF a < b THEN a ELSE b

(***************************************************************************)
(* The processing loop of main (app.py 134-155) over the uploaded files,   *)
(* in order.  A run is [paper_data, active_file_key, raised]; an exception *)
(* ends the script run there: nothing in main catches it, and what was     *)
(* stored in the session state before it stays.                            *)
(***************************************************************************)
\* a variant that stores the entry and leaves active_file_key alone
store_only(run, f, entry) ==
    [run EXCEPT !.paper_data = (f :> entry) @@ run.paper_data]

\* lines 149-155
store(run, f, entry) ==
    [run EXCEPT !.paper_data = (f :> entry) @@ run.paper_data,
                !.active_file_key = f]

\* lines 142-155, for the cleaned words of file f
Analyse(run, f, words, wsize) ==
    LET G == build_graph(words, wsize)
        r == pagerank(G)
    IN  IF r.raised # "none" THEN {[run EXCEPT !.raised = r.raised]}
        ELSE {store(run, f, [graph |-> G, pagerank |-> r.pr, df |-> df,
                             count |-> Len(words)]) : df \in RankedTables(r.pr)}

\* lines 136-155, the body of the loop
ProcessFile(run, f, wsize) ==
    IF f \in DOMAIN run.paper_data THEN {run}
    ELSE IF f \in Corrupt THEN {[run EXCEPT !.raised = "FileDataError"]}
    ELSE IF Len(PdfWords[f]) > MinWords THEN Analyse(run, f, PdfWords[f], wsize)
    ELSE {run}

RECURSIVE ProcessAll(_, _, _)
ProcessAll(runs, files, wsize) ==
    IF files = <<>> THEN runs
    ELSE ProcessAll(UNION {IF run.raised # "none" THEN {run}
                           ELSE ProcessFile(run, Head(files), wsize) : run \in runs},
                    Tail(files), wsize)

(***************************************************************************)
(* The display step of main (app.py 158-210).  A widget returns the value  *)
(* the user just gave it (touch names the widget, val the value), else the *)
(* value it had in the previous run if that run showed it with the same    *)
(* parameters, else its default.                                           *)
(***************************************************************************)
Blank(err) ==
    [selected |-> NoPaper, max_words |-> 0, selected_words |-> {},
     G_vis |-> NoGraph, raised |-> err]

\* the previous run reached the number_input and the multiselect
Shown == raised = "none" /\ selected # NoPaper

Display(data, active, touch, val) ==
    IF DOMAIN data = {} THEN Blank("none")
    ELSE IF active \notin DOMAIN data THEN Blank("ValueError")
    ELSE
      LET sel   == IF touch = "select" THEN val
                   ELSE IF selected # NoPaper /\ DOMAIN data = DOMAIN paper_data
                           /\ active = active_file_key
                        THEN selected ELSE active
          df    == data[sel].df
          total_words == Len(df)
      IN  IF total_words < 1
          THEN [Blank("StreamlitAPIException") EXCEPT !.selected = sel]
          ELSE
            LET mw  == IF touch = "max" THEN val
                       ELSE IF Shown /\ Len(paper_data[selected].df) = total_words
                            THEN max_words ELSE Min(DefaultShown, total_words)
                top_words == head(df, mw)
                sw  == IF touch = "filter" THEN val
                       ELSE IF Shown /\ head(paper_data[selected].df, max_words) = top_words
                            THEN selected_words ELSE Range(top_words)
            IN  [selected |-> sel, max_words |-> mw, selected_words |-> sw,
                 G_vis |-> visible(data[sel].graph, sw), raised |-> "none"]

\* one run of the script main()
Main(files, wsize, touch, val) ==
    \E run \in ProcessAll({[paper_data |-> paper_data,
                            active_file_key |-> active_file_key,
                            raised |-> "none"]}, files, wsize) :
      LET shown == IF run.raised # "none" THEN Blank(run.raised)
                   ELSE Display(run.paper_data, run.active_file_key, touch, val)
      IN  /\ paper_data' = run.paper_data
          /\ active_file_key' = run.active_file_key
          /\ uploaded_files' = files
          /\ window_size' = wsize
          /\ selected' = shown.selected
          /\ max_words' = shown.max_words
          /\ selected_words' = shown.selected_words
          /\ G_vis' = shown.G_vis
          /\ raised' = shown.raised
          /\ UNCHANGED <<core, pc>>

Batches ==
    {b \in UNION {[1..n -> FileNames] : n \in 0..MaxBatch} :
        \A i, j \in DOMAIN b : i # j => b[i] # b[j]}

Init ==
    /\ paper_data = <<>>
    /\ active_file_key = NoPaper
    /\ uploaded_files = <<>>
    /\ window_size = SliderDefault
    /\ selected = NoPaper
    /\ max_words = 0
    /\ selected_words = {}
    /\ G_vis = NoGraph
    /\ raised = "none"
    /\ tokens = <<>> /\ win = SliderDefault /\ graph = EmptyGraph
    /\ rank = <<>> /\ table = <<>> /\ included = {}
    /\ pc = "session"

\* the user changes the files in the uploader
Upload(b) ==
    /\ b # uploaded_files
    /\ Main(b, window_size, "none", 0)

\* the user moves the slider
Slide(w) ==
    /\ w # window_size
    /\ Main(uploaded_files, w, "none", 0)

\* the user picks another paper in the selectbox
SelectPaper(f) ==
    /\ selected # NoPaper
    /\ f \in DOMAIN paper_data /\ f # selected
    /\ Main(uploaded_files, window_size, "select", f)

\* the user changes the number of words shown
SetMaxWords(n) ==
    /\ Shown
    /\ n \in 1..Len(paper_data[selected].df) /\ n # max_words
    /\ Main(uploaded_files, window_size, "max", n)

\* the user changes the words of the filter
FilterWords(S) ==
    /\ Shown
    /\ S \subseteq Range(head(paper_data[selected].df, max_words))
    /\ S # selected_words
    /\ Main(uploaded_files, window_size, "filter", S)

Next ==
    \/ \E b \in Batches : Upload(b)
    \/ \E w \in SliderMin..SliderMax : Slide(w)
    \/ \E f \in FileNames : SelectPaper(f)
    \/ \E n \in 1..Cardinality(Terms) : SetMaxWords(n)
    \/ \E S \in SUBSET Terms : FilterWords(S)

Spec == Init /\ [][Next]_vars

(***************************************************************************)
(* The components on every bounded input: build_graph, then the ranking of *)
(* lines 143-147, then the filter of line 210 with any set of terms.       *)
(***************************************************************************)
TokenSeqs == UNION {[1..n -> Terms] : n \in 0..MaxLen}

InitCore ==
    /\ tokens \in TokenSeqs
    /\ win \in (0 - NegW)..MaxW
    /\ graph = EmptyGraph /\ rank = <<>> /\ table = <<>> /\ included = {}
    /\ G_vis = NoGraph /\ raised = "none"
    /\ pc = "input"
    /\ paper_data = <<>> /\ active_file_key = NoPaper /\ uploaded_files = <<>>
    /\ window_size = SliderDefault /\ selected = NoPaper /\ max_words = 0
    /\ selected_words = {}

\* build_graph returns for every argument: it has no raise and no index
\* out of range
Build ==
    /\ pc = "input"
    /\ graph' = build_graph(tokens, win)
    /\ raised' = "none"
    /\ pc' = "built"
    /\ UNCHANGED <<session, tokens, win, rank, table, included, G_vis>>

Rank ==
    /\ pc = "built"
    /\ LET r == pagerank(graph)
       IN  IF r.raised # "none"
           THEN raised' = r.raised /\ pc' = "failed" /\ UNCHANGED <<rank, table>>
           ELSE /\ rank' = r.pr
                /\ table' \in RankedTables(r.pr)
                /\ raised' = "none"
                /\ pc' = "ranked"
    /\ UNCHANGED <<session, tokens, win, graph, included, G_vis>>

View ==
    /\ pc = "ranked"
    /\ \E S \in SUBSET Terms :
         /\ included' = S
         /\ G_vis' = visible(graph, S)
    /\ pc' = "viewed"
    /\ UNCHANGED <<session, tokens, win, graph, rank, table, raised>>

NextCore == Build \/ Rank \/ View

SpecCore == InitCore /\ [][NextCore]_vars

(***************************************************************************)
(* Properties.                                                             *)
(***************************************************************************)
Built == pc \in {"built", "ranked", "viewed", "failed"}
Ranked == pc \in {"ranked", "viewed"}

Linked(G, a, b) == a \in NodeSet(G) /\ b \in G.adj[a]

\* C1: for every window size w >= 1, build_graph links tokens[i] and
\* tokens[i+j] for every position i and every offset j in 1..w with i+j
\* inside the sequence and the two terms different, the pairs among the
\* last w tokens included.
C1_EveryPairInWindowLinked ==
    (Built /\ win >= 1) =>
        \A i \in 1..Len(tokens), j \in 1..win :
            (i + j <= Len(tokens) /\ tokens[i] # tokens[i + j])
                => Linked(graph, tokens[i], tokens[i + j])

\* What build_graph does link: the pairs whose first position i leaves a
\* whole window after it (i <= Len(tokens) - w).
LinkedUpToLastFullWindow ==
    (Built /\ win >= 1) =>
        \A i \in 1..Len(tokens), j \in 1..win :
            (i <= Len(tokens) - win /\ tokens[i] # tokens[i + j])
                => Linked(graph, tokens[i], tokens[i + j])

\* C2: for every window size w >= 1 the built graph has no self-loop, and
\* the two ends of every edge stand at two positions of the token sequence
\* at most w apart.
C2_NoSelfLoopEdgesWithinWindow ==
    (Built /\ win >= 1) =>
        /\ \A n \in NodeSet(graph) : n \notin graph.adj[n]
        /\ \A a \in NodeSet(graph) : \A b \in graph.adj[a] :
              \E p, q \in 1..Len(tokens) :
                  /\ tokens[p] = a /\ tokens[q] = b
                  /\ 1 <= Abs(p - q) /\ Abs(p - q) <= win

\* a graph with an edge, built from a sequence that repeats a term inside
\* a window the loop visits, and that leaves two of its terms unlinked
C2_Witness ==
    /\ pc = "built" /\ win >= 1
    /\ Edges(graph) # {}
    /\ \E i \in 1..(Len(tokens) - win) : \E j \in 1..win : tokens[i] = tokens[i + j]
    /\ \E a, b \in NodeSet(graph) : a # b /\ ~Linked(graph, a, b)

\* C5: build_graph with window_size <= 0 fails with InvalidArgument and
\* returns no graph.
C5_NonPositiveWindowRejected ==
    (Built /\ win <= 0) => raised = "InvalidArgument"

\* What build_graph does with window_size <= 0: it returns the empty graph.
NonPositiveWindowGivesEmptyGraph ==
    (Built /\ win <= 0) => (raised = "none" /\ graph = EmptyGraph)

TableIsRankingOf(df, pr) ==
    /\ Len(df) = Cardinality(DOMAIN pr)
    /\ {df[i].Kata : i \in 1..Len(df)} = DOMAIN pr
    /\ \A i \in 1..Len(df) : df[i].ID = i /\ df[i].PageRank = pr[df[i].Kata]
    /\ \A i, j \in 1..Len(df) : i < j => df[i].PageRank >= df[j].PageRank

\* C6: the ranked table lists each term of the score map once, with the
\* rank positions 1..N, by descending score, and terms of equal score in
\* ascending lexicographic order.
C6_TableSortedTiesLexicographic ==
    Ranked =>
        /\ TableIsRankingOf(table, rank)
        /\ \A i, j \in 1..Len(table) :
              (i < j /\ table[i].PageRank = table[j].PageRank)
                  => LexLess(table[i].Kata, table[j].Kata)

\* What the table does satisfy: everything but the order of the ties.
TableSortedByScore == Ranked => TableIsRankingOf(table, rank)

\* C7: the displayed graph is the induced subgraph on the included terms
\* when there are any (its nodes are the included terms that are nodes of
\* the graph, its edges the edges with both ends included), and the full
\* graph when there are none.
C7_VisibleIsInducedSubgraph ==
    pc = "viewed" =>
        IF included = {} THEN G_vis = graph
        ELSE /\ NodeSet(G_vis) = included \cap NodeSet(graph)
             /\ Range(G_vis.nodes) = NodeSet(G_vis)
             /\ \A a, b \in Terms :
                   Linked(G_vis, a, b)
                       <=> (Linked(graph, a, b) /\ a \in included /\ b \in included)

\* a filter that keeps an edge and drops a node and its edges
C7_Witness ==
    /\ pc = "viewed"
    /\ included # {} /\ NodeSet(G_vis) # NodeSet(graph)
    /\ Edges(G_vis) # {} /\ Edges(G_vis) # Edges(graph)

Loaded == raised \notin {"FileDataError", "PowerIterationFailedConvergence"}

\* C3: after a run, a cached document that the run processed again holds
\* the graph, the score map and a ranked table of the run's window size:
\* recomputed when the window size changed, unchanged when it did not.
C3_WindowChangeRecomputes ==
    Loaded =>
        \A i \in 1..Len(uploaded_files) :
            LET f == uploaded_files[i]
            IN  f \in DOMAIN paper_data =>
                  /\ paper_data[f].graph = build_graph(PdfWords[f], window_size)
                  /\ paper_data[f].pagerank = pagerank(paper_data[f].graph).pr
                  /\ paper_data[f].df \in RankedTables(paper_data[f].pagerank)

\* C4: the ranker is never called on a graph without edges: no cache entry
\* holds an empty graph or an empty ranked table.
C4_NoEmptyGraphRanked ==
    \A f \in DOMAIN paper_data :
        Edges(paper_data[f].graph) # {} /\ paper_data[f].df # <<>>

\* C8: a failure on one document of the batch leaves the others processed:
\* after the run, every uploaded document that can be read and has more
\* than MinWords words has its cache entry.
C8_FailureIsolatedPerDocument ==
    \A i \in 1..Len(uploaded_files) :
        LET f == uploaded_files[i]
        IN  (f \notin Corrupt /\ Len(PdfWords[f]) > MinWords) => f \in DOMAIN paper_data

RECURSIVE SumScores(_, _)
SumScores(pr, S) ==
    IF S = {} THEN 0
    ELSE LET n == CHOOSE n \in S : TRUE IN pr[n] + SumScores(pr, S \ {n})

\* scores sum to 1.0 within 1e-4
SumsToOne(pr) == Abs(SumScores(pr, DOMAIN pr) - Scale) <= Scale \div 10000

\* C9: every score map the ranker returned for a built graph has one
\* score per node, no negative score, and scores that sum to 1.0 within
\* 1e-4.
C9_ScoresSumToOne ==
    \A f \in DOMAIN paper_data :
        /\ DOMAIN paper_data[f].pagerank = NodeSet(paper_data[f].graph)
        /\ \A n \in DOMAIN paper_data[f].pagerank : paper_data[f].pagerank[n] >= 0
        /\ SumsToOne(paper_data[f].pagerank)

\* What holds of the score maps: the same, for the graphs that have a node.
ScoresSumToOneUnlessEmpty ==
    \A f \in DOMAIN paper_data :
        /\ DOMAIN paper_data[f].pagerank = NodeSet(paper_data[f].graph)
        /\ \A n \in DOMAIN paper_data[f].pagerank : paper_data[f].pagerank[n] >= 0
        /\ NodeSet(paper_data[f].graph) # {} => SumsToOne(paper_data[f].pagerank)

ActiveKeyCached ==
    /\ DOMAIN paper_data # {} => active_file_key \in DOMAIN paper_data
    /\ raised # "ValueError"

EntriesKept ==
    \A f \in DOMAIN paper_data :
        f \in DOMAIN paper_data' /\ paper_data'[f] = paper_data[f]

\* C10: whenever paper_data is non-empty, active_file_key is one of its
\* keys, so files.index(active_file_key) never fails; and a run only adds
\* cache entries: it removes none and overwrites none.
C10_ActiveKeyCachedEntriesKept == []ActiveKeyCached /\ [][EntriesKept]_vars

\* two papers cached, the slider moved since, the user looking at the one
\* that is not the active one
C10_Witness ==
    /\ Cardinality(DOMAIN paper_data) = 2
    /\ window_size # SliderDefault
    /\ selected \in DOMAIN paper_data /\ selected # active_file_key

=============================================================================
